---------------------------- MODULE Spec2Model ----------------------------
(***************************************************************************)
(* Model of gemini_table_titles.py: the start-up configuration, the batch  *)
(* driver, process_pdf_with_gemini, extract_table_info and save_results.   *)
(*                                                                         *)
(* JSON values are tagged records.  A scalar is [type, s, n]; a Python     *)
(* dict is [type |-> "dict", d |-> function from keys to scalars]; a list  *)
(* is [type |-> "list", items |-> sequence of values].  A response text is *)
(* a sequence of lexical tokens: runs of whitespace, the two code-fence    *)
(* markers, complete JSON documents and text that is no JSON.              *)
(***************************************************************************)
EXTENDS Integers, Sequences, FiniteSets, TLC

\* Largest number of pages a rasterized PDF has in the model.
MaxPages == 2
\* Largest number of entries os.listdir returns in the model.
MaxFiles == 2

(***************************************************************************)
(* JSON values                                                             *)
(***************************************************************************)
Str(x) == [type |-> "str", s |-> x, n |-> 0]
Num(x) == [type |-> "num", s |-> "", n |-> x]
JTrue == [type |-> "bool", s |-> "true", n |-> 1]
JNull == [type |-> "null", s |-> "", n |-> 0]
Dict(f) == [type |-> "dict", d |-> f]
List(q) == [type |-> "list", items |-> q]

\* A page number no page of the model has: what the model "reported".
ReportedPage == Num(0 - 1)

ObjTitled   == Dict([title |-> Str("Revenue"), page_number |-> ReportedPage])
ObjOther    == Dict([title |-> Str("Costs"), page_number |-> Num(1)])
ObjNoTitle  == Dict([page_number |-> ReportedPage])
ObjEmpty    == Dict([title |-> Str("")])
ObjNull     == Dict([title |-> JNull])

(***************************************************************************)
(* Response texts                                                          *)
(***************************************************************************)
Ws        == [tok |-> "ws", val |-> JNull]
FenceJson == [tok |-> "fence_json", val |-> JNull]
Fence     == [tok |-> "fence", val |-> JNull]
Junk      == [tok |-> "junk", val |-> JNull]
Doc(v)    == [tok |-> "json", val |-> v]

ArrayTexts ==
    { <<Doc(List(<<>>))>>,
      <<Doc(List(<<ObjTitled>>))>>,
      <<FenceJson, Ws, Doc(List(<<ObjNoTitle, ObjOther>>)), Ws, Fence>>,
      <<Doc(List(<<ObjEmpty>>))>>,
      <<Doc(List(<<ObjTitled, Num(5)>>))>> }

NonListTexts ==
    { <<Doc(ObjNull)>>,
      <<Fence, Doc(ObjNoTitle), Fence>>,
      <<Doc(Str("title"))>>,
      <<Doc(Num(3))>>,
      <<Doc(JTrue)>>,
      <<Doc(JNull)>> }

BadTexts ==
    { <<>>,
      <<Ws>>,
      <<Doc(List(<<ObjTitled>>)), Ws, Junk>> }

ResponseTexts == ArrayTexts \cup NonListTexts \cup BadTexts

\* What model.generate_content / response.text can do: raise, or give a text.
Raised == [kind |-> "raise", text |-> <<>>]
Text(t) == [kind |-> "text", text |-> t]
Outcomes == {Raised} \cup {Text(t) : t \in ResponseTexts}

(***************************************************************************)
(* extract_table_info                                                      *)
(***************************************************************************)
IsWs(t) == t.tok = "ws"

RECURSIVE LStrip(_)
LStrip(t) == IF t # <<>> /\ IsWs(Head(t)) THEN LStrip(Tail(t)) ELSE t

RECURSIVE RStrip(_)
RStrip(t) ==
    IF t # <<>> /\ IsWs(t[Len(t)]) THEN RStrip(SubSeq(t, 1, Len(t) - 1)) ELSE t

\* str.strip()
Strip(t) == RStrip(LStrip(t))

\* str.replace(marker, empty string)
Replace(t, marker) == SelectSeq(t, LAMBDA x : x.tok # marker)

\* cleaned_text of lines 90-92
Clean(t) == Strip(Replace(Replace(Strip(t), "fence_json"), "fence"))

\* json.loads: exactly one JSON document, whitespace around it allowed;
\* anything else is a JSONDecodeError.
JsonLoads(t) ==
    LET docs == SelectSeq(t, LAMBDA x : ~IsWs(x))
    IN  IF Len(docs) = 1 /\ docs[1].tok = "json"
        THEN [ok |-> TRUE, value |-> docs[1].val]
        ELSE [ok |-> FALSE, value |-> JNull]

\* ErrorRecord without the error field.
ErrorRecord_no_error(page_number, msg) ==
    [title |-> Str("Unknown"), page_number |-> Num(page_number)]

\* The single record of lines 82-86, 106-110 and 113-117.
ErrorRecord(page_number, msg) ==
    [title |-> Str("Unknown"), page_number |-> Num(page_number), error |-> Str(msg)]

\* SetStructure with the model's page_number kept when it gave one.
SetStructure_keeps_page(entry, page_number) ==
    LET titled == IF "title" \in DOMAIN entry.d
                  THEN entry.d
                  ELSE ("title" :> Str("Unknown")) @@ entry.d
    IN  titled @@ ("page_number" :> Num(page_number))

\* SetStructure without the default title.
SetStructure_no_default(entry, page_number) ==
    ("page_number" :> Num(page_number)) @@ entry.d

\* Lines 100-102 on one entry that is a dict.
SetStructure(entry, page_number) ==
    LET titled == IF "title" \in DOMAIN entry.d
                  THEN entry.d
                  ELSE ("title" :> Str("Unknown")) @@ entry.d
    IN  ("page_number" :> Num(page_number)) @@ titled

\* Lines 99-102 raise TypeError on an entry that is no dict: a number, a
\* boolean or null is not iterable, a string or a list takes no string key.
EntryRaises(entry) == entry.type # "dict"

extract_table_info(outcome, page_number) ==
    IF outcome.kind = "raise"
    THEN <<ErrorRecord(page_number, "Error processing page")>>
    ELSE IF outcome.text = <<>>
    THEN <<ErrorRecord(page_number, "Empty response from model")>>
    ELSE LET parsed == JsonLoads(Clean(outcome.text))
         IN  IF ~parsed.ok
             THEN <<ErrorRecord(page_number, "Invalid JSON response")>>
             ELSE LET result == IF parsed.value.type # "list"
                                THEN <<parsed.value>>
                                ELSE parsed.value.items
                  IN  IF \E k \in DOMAIN result : EntryRaises(result[k])
                      THEN <<ErrorRecord(page_number, "Error processing page")>>
                      ELSE [k \in DOMAIN result |->
                               SetStructure(result[k], page_number)]


(***************************************************************************)
(* The program state                                                       *)
(***************************************************************************)
VARIABLES
    api_key,     \* os.getenv("GEMINI_API_KEY") once load_dotenv has run
    input_dir,   \* the names os.listdir("input") returns, in its order
    pc,          \* the statement the script is at
    listed,      \* os.listdir has been called
    pdf_files,   \* line 179
    f,           \* 1-based position of pdf_file in pdf_files, 0 before the loop
    images,      \* per page image of the current PDF: the number of close() calls
    i,           \* enumerate index of line 153
    output,      \* line 151
    results,     \* line 157
    err,         \* the exception that is propagating, "" when none
    inflight,    \* inference requests issued and not yet answered
    outfiles,    \* the files written under output/
    responses,   \* history: what the model did for each page of the current PDF
    origin,      \* history: the page each record of output was derived from
    requests,    \* history: the inference requests of the current PDF, each
                 \* with the state of the image it was given
    attempted,   \* history: the files process_pdf_with_gemini was called on
    rasterized,  \* history: pages rasterized from the current PDF, -1 on
                 \* error, -2 before convert_pdf_to_images returns
    report       \* history: per attempted file, what the driver printed

vars == <<api_key, input_dir, pc, listed, pdf_files, f, images, i, output,
          results, err, inflight, outfiles, responses, origin, requests,
          attempted, rasterized, report>>

NoneKey == "<None>"
ApiKeys == {NoneKey, "", "your_api_key_here", "a-real-key"}

\* A file name is <<stem, extension>>.  DirOrder is the order in which
\* os.listdir gives the names that the input directory may hold.
DirOrder == << <<"b", ".pdf">>, <<"notes", ".txt">>, <<"a", ".pdf">> >>

RECURSIVE Pick(_, _)
\* The names of DirOrder[1..n] that are in the directory, in DirOrder's order.
Pick(present, n) ==
    IF n = 0 THEN <<>>
    ELSE IF n \in present THEN Append(Pick(present, n - 1), DirOrder[n])
    ELSE Pick(present, n - 1)

\* What os.listdir may return: the directory holds at most MaxFiles names.
Listings ==
    { Pick(present, Len(DirOrder)) :
        present \in { S \in SUBSET DOMAIN DirOrder : Cardinality(S) <= MaxFiles } }

\* get_api_key without the placeholder test.
get_api_key_raises_no_placeholder(key) == key = NoneKey \/ key = ""

\* get_api_key raises ValueError.
get_api_key_raises(key) ==
    \/ key = NoneKey \/ key = ""
    \/ key = "your_api_key_here"

\* f.endswith('.pdf')
EndsWithPdf(name) == name[2] = ".pdf"

OutFile(name, ext) == [stem |-> name[1], ext |-> ext]

\* output.extend(results) the wrong way round.
extend_front(out, res) == res \o out

\* output.extend(results)
extend(out, res) == out \o res

HasError(res) == \E k \in DOMAIN res : "error" \in DOMAIN res[k]

Init ==
    /\ api_key \in ApiKeys
    /\ input_dir \in Listings
    /\ pc = "configure"
    /\ listed = FALSE
    /\ pdf_files = <<>>
    /\ f = 0
    /\ images = <<>>
    /\ i = 0
    /\ output = <<>>
    /\ results = <<>>
    /\ err = ""
    /\ inflight = 0
    /\ outfiles = {}
    /\ responses = <<>>
    /\ origin = <<>>
    /\ requests = <<>>
    /\ attempted = <<>>
    /\ rasterized = 0 - 2
    /\ report = <<>>

\* Lines 35-42: the module-level configuration.
Configure ==
    /\ pc = "configure"
    /\ pc' = IF get_api_key_raises(api_key) THEN "config_failed" ELSE "listdir"
    /\ UNCHANGED <<api_key, input_dir, listed, pdf_files, f, images, i, output,
                   results, err, inflight, outfiles, responses, origin,
                   requests, attempted, rasterized, report>>

\* Lines 178-180.
ListDir ==
    /\ pc = "listdir"
    /\ listed' = TRUE
    /\ pdf_files' = SelectSeq(input_dir, EndsWithPdf)
    /\ pc' = "loop"
    /\ UNCHANGED <<api_key, input_dir, f, images, i, output, results, err,
                   inflight, outfiles, responses, origin, requests, attempted,
                   rasterized, report>>

\* Lines 181-185: the next pdf_file, and the call of process_pdf_with_gemini.
LoopHead ==
    /\ pc = "loop"
    /\ IF f < Len(pdf_files)
       THEN /\ f' = f + 1
            /\ attempted' = Append(attempted, pdf_files[f + 1])
            /\ requests' = <<>>
            /\ rasterized' = 0 - 2
            /\ pc' = "convert"
       ELSE /\ pc' = "exit"
            /\ UNCHANGED <<f, attempted, requests, rasterized>>
    /\ UNCHANGED <<api_key, input_dir, listed, pdf_files, images, i, output,
                   results, err, inflight, outfiles, responses, origin,
                   report>>

\* The state process_pdf_with_gemini starts the page loop in (lines 151-153).
StartPages(n) ==
    /\ images' = [k \in 1..n |-> 0]
    /\ output' = <<>>
    /\ origin' = <<>>
    /\ responses' = <<>>
    /\ i' = 0

\* Convert without the test of line 148: zero pages go on to be saved.
Convert_no_empty_check ==
    /\ pc = "convert"
    /\ \E n \in (0 - 1)..MaxPages :
        /\ rasterized' = n
        /\ IF n < 0
           THEN /\ err' = "convert"
                /\ pc' = "except"
                /\ UNCHANGED <<images, i, output, origin, responses>>
           ELSE /\ StartPages(n)
                /\ pc' = IF n = 0 THEN "save_json" ELSE "generate"
                /\ UNCHANGED err
    /\ UNCHANGED <<api_key, input_dir, listed, pdf_files, f, results, inflight,
                   outfiles, requests, attempted, report>>

\* Lines 147-151 (convert_pdf_to_images is lines 44-52): rasterization
\* fails (n = -1), gives no page (n = 0), or gives n pages.
Convert ==
    /\ pc = "convert"
    /\ \E n \in (0 - 1)..MaxPages :
        /\ rasterized' = n
        /\ IF n < 0
           THEN /\ err' = "convert"
                /\ pc' = "except"
                /\ UNCHANGED <<images, i, output, origin, responses>>
           ELSE IF n = 0
           THEN /\ err' = "nopages"
                /\ pc' = "except"
                /\ UNCHANGED <<images, i, output, origin, responses>>
           ELSE /\ StartPages(n)
                /\ pc' = "generate"
                /\ UNCHANGED err
    /\ UNCHANGED <<api_key, input_dir, listed, pdf_files, f, results, inflight,
                   outfiles, requests, attempted, report>>

\* Lines 153-157 and 79: the inference request for page i + 1 goes out.
Generate ==
    /\ pc = "generate"
    /\ requests' = Append(requests, [page_number |-> i + 1,
                                     closes |-> images[i + 1]])
    /\ inflight' = inflight + 1
    /\ pc' = "respond"
    /\ UNCHANGED <<api_key, input_dir, listed, pdf_files, f, images, i, output,
                   results, err, outfiles, responses, origin, attempted,
                   rasterized, report>>

\* Lines 79-117 and 157-158: the request returns or fails, extract_table_info
\* returns its records, and output is extended with them.  The handler of
\* lines 159-164 is never entered: extract_table_info catches every Exception.
Respond ==
    /\ pc = "respond"
    /\ \E o \in Outcomes :
        /\ results' = extract_table_info(o, i + 1)
        /\ output' = extend(output, results')
        /\ origin' = origin \o [k \in DOMAIN results' |-> i + 1]
        /\ responses' = Append(responses, o)
    /\ inflight' = inflight - 1
    /\ pc' = "close"
    /\ UNCHANGED <<api_key, input_dir, listed, pdf_files, f, images, i, err,
                   outfiles, requests, attempted, rasterized, report>>

\* The loop of line 153 going on after img.close().
Advance ==
    IF i + 1 < Len(images)
    THEN i' = i + 1 /\ pc' = "generate"
    ELSE i' = i /\ pc' = "save_json"

\* Close that leaves the image of a page with an error record open.
Close_not_on_error ==
    /\ pc = "close"
    /\ images' = IF HasError(results) THEN images
                 ELSE [images EXCEPT ![i + 1] = @ + 1]
    /\ Advance
    /\ UNCHANGED <<api_key, input_dir, listed, pdf_files, f, output, results,
                   err, inflight, outfiles, responses, origin, requests,
                   attempted, rasterized, report>>

\* Close that asks again for a page that gave an error record.
Close_retry ==
    /\ pc = "close"
    /\ IF HasError(results)
       THEN /\ pc' = "generate"
            /\ UNCHANGED <<i, images>>
       ELSE /\ images' = [images EXCEPT ![i + 1] = @ + 1]
            /\ Advance
    /\ UNCHANGED <<api_key, input_dir, listed, pdf_files, f, output, results,
                   err, inflight, outfiles, responses, origin, requests,
                   attempted, rasterized, report>>

\* Lines 165-167 and the loop of line 153: img.close(), then the next page.
Close ==
    /\ pc = "close"
    /\ images' = [images EXCEPT ![i + 1] = @ + 1]
    /\ Advance
    /\ UNCHANGED <<api_key, input_dir, listed, pdf_files, f, output, results,
                   err, inflight, outfiles, responses, origin, requests,
                   attempted, rasterized, report>>

\* Lines 121-133 of save_results: the JSON file is written, or an exception
\* (makedirs, open, json.dump) becomes the RuntimeError of line 141.
SaveJson ==
    /\ pc = "save_json"
    /\ \/ /\ outfiles' = outfiles \cup {OutFile(pdf_files[f], "json")}
          /\ pc' = "save_csv"
          /\ UNCHANGED err
       \/ /\ err' = "save"
          /\ pc' = "except"
          /\ UNCHANGED outfiles
    /\ UNCHANGED <<api_key, input_dir, listed, pdf_files, f, images, i, output,
                   results, inflight, responses, origin, requests, attempted,
                   rasterized, report>>

\* Lines 135-141 of save_results: the CSV file is written, or an exception
\* becomes the RuntimeError of line 141.
SaveCsv ==
    /\ pc = "save_csv"
    /\ \/ /\ outfiles' = outfiles \cup {OutFile(pdf_files[f], "csv")}
          /\ pc' = "return"
          /\ UNCHANGED err
       \/ /\ err' = "save"
          /\ pc' = "except"
          /\ UNCHANGED outfiles
    /\ UNCHANGED <<api_key, input_dir, listed, pdf_files, f, images, i, output,
                   results, inflight, responses, origin, requests, attempted,
                   rasterized, report>>

\* Lines 172 and 185-186: output is returned and the driver prints it.
Return ==
    /\ pc = "return"
    /\ report' = Append(report, "ok")
    /\ pc' = "loop"
    /\ UNCHANGED <<api_key, input_dir, listed, pdf_files, f, images, i, output,
                   results, err, inflight, outfiles, responses, origin,
                   requests, attempted, rasterized>>

\* Except with the batch given up at the first failing file.
Except_aborts ==
    /\ pc = "except"
    /\ report' = Append(report, err)
    /\ err' = ""
    /\ pc' = "exit"
    /\ UNCHANGED <<api_key, input_dir, listed, pdf_files, f, images, i, output,
                   results, inflight, outfiles, responses, origin, requests,
                   attempted, rasterized>>

\* Lines 173-174 and 187-188: the exception leaves process_pdf_with_gemini
\* as a RuntimeError, the driver prints it and goes on with the next file.
Except ==
    /\ pc = "except"
    /\ report' = Append(report, err)
    /\ err' = ""
    /\ pc' = "loop"
    /\ UNCHANGED <<api_key, input_dir, listed, pdf_files, f, images, i, output,
                   results, inflight, outfiles, responses, origin, requests,
                   attempted, rasterized>>

Next ==
    \/ Configure
    \/ ListDir
    \/ LoopHead
    \/ Convert
    \/ Generate
    \/ Respond
    \/ Close
    \/ SaveJson
    \/ SaveCsv
    \/ Return
    \/ Except

Spec == Init /\ [][Next]_vars

(***************************************************************************)
(* Helpers of the properties                                               *)
(***************************************************************************)
\* The page whose call of extract_table_info has just returned.
page == i + 1

\* The model's response for that page.
response == responses[page]

Parsed(o) == JsonLoads(Clean(o.text))

ParsesAsJson(o) == o.kind = "text" /\ o.text # <<>> /\ Parsed(o).ok

ParsesAsArrayOfObjects(o) ==
    /\ ParsesAsJson(o)
    /\ Parsed(o).value.type = "list"
    /\ \A k \in DOMAIN Parsed(o).value.items :
          Parsed(o).value.items[k].type = "dict"

\* A failure: the call failed, the text is empty, or it is no JSON.
Fails(o) == o.kind = "raise" \/ o.text = <<>> \/ ~Parsed(o).ok

IsErrorRecord(r, p) ==
    /\ DOMAIN r = {"title", "page_number", "error"}
    /\ r.title = Str("Unknown")
    /\ r.page_number = Num(p)
    /\ r.error.type = "str" /\ r.error.s # ""

\* r is the JSON object obj with a missing title defaulted and the page
\* number set to p, and nothing else changed.
IsNormalized(r, obj, p) ==
    /\ DOMAIN r = DOMAIN obj.d \cup {"title", "page_number"}
    /\ r.page_number = Num(p)
    /\ r.title = IF "title" \in DOMAIN obj.d THEN obj.d.title ELSE Str("Unknown")
    /\ \A key \in DOMAIN obj.d \ {"title", "page_number"} : r[key] = obj.d[key]

NonEmptyTitle(r) ==
    /\ "title" \in DOMAIN r
    /\ r.title.type = "str"
    /\ r.title.s # ""

InPageLoop == pc \in {"generate", "respond", "close"}
AfterPageLoop == pc \in {"save_json", "save_csv", "return"}

RECURSIVE ConcatPages(_, _)
\* The record lists of pages 1..n, one after the other.
ConcatPages(resp, n) ==
    IF n = 0 THEN <<>>
    ELSE ConcatPages(resp, n - 1) \o extract_table_info(resp[n], n)

(***************************************************************************)
(* C1: when the response text, cleaned, parses as a JSON array of n        *)
(* objects, extract_table_info returns n records in the array's order,     *)
(* each with page_number equal to the page it was called with, whatever    *)
(* page_number the model put in the object.                                *)
(***************************************************************************)
C1_ArrayOfObjects ==
    (pc = "close" /\ ParsesAsArrayOfObjects(response)) =>
        LET items == Parsed(response).value.items
        IN  /\ Len(results) = Len(items)
            /\ \A k \in DOMAIN items :
                  /\ results[k].page_number = Num(page)
                  /\ \A key \in DOMAIN items[k].d \ {"page_number"} :
                        results[k][key] = items[k].d[key]

C1_Witness ==
    /\ pc = "close"
    /\ page = 2
    /\ ParsesAsArrayOfObjects(response)
    /\ Len(results) = 2
    /\ Parsed(response).value.items[2].d.page_number = Num(1)
    /\ Parsed(response).value.items[1].d.page_number = ReportedPage
    /\ results[1].page_number = Num(2) /\ results[2].page_number = Num(2)

(***************************************************************************)
(* C2: for an empty response text, a text that is no valid JSON and a      *)
(* failed inference call, extract_table_info returns (it does not raise)   *)
(* exactly one record with title "Unknown", the page number it was called  *)
(* with and a populated error field.                                       *)
(***************************************************************************)
C2_FailureRecord ==
    (pc = "close" /\ Fails(response)) =>
        /\ Len(results) = 1
        /\ IsErrorRecord(results[1], page)

C2_Witness ==
    /\ pc = "close"
    /\ page = 2
    /\ response = Text(<<Ws>>)
    /\ responses[1] = Raised
    /\ Len(output) = 2
    /\ IsErrorRecord(output[1], 1) /\ IsErrorRecord(output[2], 2)

(***************************************************************************)
(* C3: every record of the ResultSet has a non-empty title and a           *)
(* page_number equal to the 1-based index of the page it came from.        *)
(***************************************************************************)
C3_TitleAndPage ==
    \A k \in DOMAIN output :
        /\ NonEmptyTitle(output[k])
        /\ output[k].page_number = Num(origin[k])

\* The part of C3 the code keeps: the page number.
C3_PageOnly ==
    /\ DOMAIN origin = DOMAIN output
    /\ \A k \in DOMAIN output : output[k].page_number = Num(origin[k])

(***************************************************************************)
(* C4: every listed PDF file is attempted exactly once, in listing order,  *)
(* whichever of them fail, and every file that does not fail has its two   *)
(* output files written.                                                   *)
(***************************************************************************)
C4_BatchIsolation ==
    /\ listed => attempted = SubSeq(pdf_files, 1, f)
    /\ pc = "exit" =>
          /\ attempted = pdf_files
          /\ Len(report) = Len(pdf_files)
    /\ \A k \in DOMAIN report :
          report[k] = "ok" =>
              /\ OutFile(pdf_files[k], "json") \in outfiles
              /\ OutFile(pdf_files[k], "csv") \in outfiles

C4_Witness ==
    /\ pc = "exit"
    /\ Len(pdf_files) = 2
    /\ report = <<"convert", "ok">>
    /\ outfiles = {OutFile(pdf_files[2], "json"), OutFile(pdf_files[2], "csv")}

(***************************************************************************)
(* C5: with the credential absent, empty or the placeholder, nothing is    *)
(* listed, rasterized, requested or written: start-up fails first.         *)
(***************************************************************************)
C5_ConfigFirst ==
    api_key \in {NoneKey, "", "your_api_key_here"} =>
        /\ pc \in {"configure", "config_failed"}
        /\ ~listed
        /\ pdf_files = <<>>
        /\ attempted = <<>>
        /\ rasterized = 0 - 2
        /\ requests = <<>>
        /\ outfiles = {}

C5_Witness ==
    /\ pc = "config_failed"
    /\ api_key = "your_api_key_here"
    /\ Len(input_dir) = 2
    /\ ~listed

(***************************************************************************)
(* C6: the ResultSet is the concatenation, in page order, of the record    *)
(* lists extract_table_info gave for the pages; a page answered with the   *)
(* empty array adds nothing.                                               *)
(***************************************************************************)
C6_PageOrder ==
    /\ output = ConcatPages(responses, Len(responses))
    /\ AfterPageLoop => Len(responses) = Len(images)
    /\ (AfterPageLoop /\ responses = << Text(<<Doc(List(<<ObjTitled>>))>>),
                                        Text(<<Doc(List(<<>>))>>) >>) =>
          output = << [title |-> Str("Revenue"), page_number |-> Num(1)] >>

C6_Witness ==
    /\ pc = "return"
    /\ responses = << Text(<<Doc(List(<<ObjTitled>>))>>),
                      Text(<<Doc(List(<<>>))>>) >>
    /\ Len(output) = 1

(***************************************************************************)
(* C7: the image of a page is closed after its inference call has returned *)
(* or failed and before the call for the next page; after the loop every   *)
(* image has been closed exactly once; no request is given a closed image. *)
(***************************************************************************)
C7_ImageRelease ==
    /\ InPageLoop =>
          /\ \A k \in 1..i : images[k] = 1
          /\ \A k \in (i + 1)..Len(images) : images[k] = 0
    /\ AfterPageLoop => \A k \in DOMAIN images : images[k] = 1
    /\ \A k \in DOMAIN requests : requests[k].closes = 0

C7_Witness ==
    /\ pc = "generate"
    /\ i = 1
    /\ HasError(results)
    /\ images = <<1, 0>>

(***************************************************************************)
(* C8: one inference request per page, in page order, never two at once,   *)
(* never a second one for a page, and a failing page does not stop the     *)
(* requests for the later pages.                                           *)
(***************************************************************************)
C8_OneRequestPerPage ==
    /\ inflight = (IF pc = "respond" THEN 1 ELSE 0)
    /\ pc = "generate" => Len(requests) = i
    /\ pc \in {"respond", "close"} => Len(requests) = i + 1
    /\ AfterPageLoop => Len(requests) = Len(images)
    /\ \A k \in DOMAIN requests : requests[k].page_number = k

C8_Witness ==
    /\ pc = "return"
    /\ Len(images) = 2
    /\ Fails(responses[1])
    /\ Len(requests) = 2
    /\ requests[2].page_number = 2

(***************************************************************************)
(* C9 as stated: a response that parses as JSON that is no list gives one  *)
(* record without an error marker, titled and with the page number set.    *)
(***************************************************************************)
C9_NonListWrapped ==
    (pc = "close" /\ ParsesAsJson(response)
                  /\ Parsed(response).value.type # "list") =>
        /\ Len(results) = 1
        /\ "title" \in DOMAIN results[1]
        /\ results[1].page_number = Num(page)
        /\ "error" \notin DOMAIN results[1]

(***************************************************************************)
(* C9 amended: a response that parses as a JSON object gives one record,   *)
(* the object with a missing title defaulted to "Unknown" and page_number  *)
(* set, and no error marker added; a response that parses as a string, a   *)
(* number, a boolean or null gives the single error record.                *)
(***************************************************************************)
C9_ObjectWrapped ==
    (pc = "close" /\ ParsesAsJson(response)
                  /\ Parsed(response).value.type # "list") =>
        /\ Len(results) = 1
        /\ IF Parsed(response).value.type = "dict"
           THEN /\ IsNormalized(results[1], Parsed(response).value, page)
                /\ "error" \notin DOMAIN results[1]
           ELSE IsErrorRecord(results[1], page)

C9_Witness ==
    /\ pc = "close"
    /\ response = Text(<<Fence, Doc(ObjNoTitle), Fence>>)
    /\ responses[1] = Text(<<Doc(JTrue)>>)
    /\ output = << ErrorRecord(1, "Error processing page"),
                   [title |-> Str("Unknown"), page_number |-> Num(2)] >>

(***************************************************************************)
(* C10: a PDF's output files are written only after all its pages have     *)
(* been processed; a failed or empty rasterization ends the file with an   *)
(* error, no inference request and no output file; a failed save ends it   *)
(* with an error instead of a returned ResultSet.                          *)
(***************************************************************************)
C10_SaveLast ==
    /\ pc \in {"convert", "generate", "respond", "close", "save_json"} =>
          \A e \in {"json", "csv"} : OutFile(pdf_files[f], e) \notin outfiles
    /\ (f > 0 /\ rasterized \in {0 - 1, 0}) =>
          /\ requests = <<>>
          /\ \A e \in {"json", "csv"} : OutFile(pdf_files[f], e) \notin outfiles
          /\ pc = "except" \/ (Len(report) = f /\ report[f] \in {"convert", "nopages"})
    /\ pc = "return" =>
          /\ Len(responses) = Len(images)
          /\ \A e \in {"json", "csv"} : OutFile(pdf_files[f], e) \in outfiles
    /\ \A k \in DOMAIN report :
          OutFile(pdf_files[k], "csv") \notin outfiles => report[k] # "ok"

C10_Witness ==
    /\ pc = "exit"
    /\ report = <<"nopages", "save">>
    /\ outfiles = {OutFile(pdf_files[2], "json")}
    /\ requests # <<>>
=============================================================================
